---- MODULE Spec2Model ----
(***************************************************************************)
(* Model of sage/misc/edit_module.py: the process-wide edit template, the  *)
(* template validator (set_edit_template / template_fields), the editor    *)
(* resolver (set_editor), the source locator (file_and_line), the IPython  *)
(* hook (edit_devel) and the editor invoker (edit).                        *)
(*                                                                         *)
(* Strings are sequences of symbols.  A symbol is either one character     *)
(* ("&", " ", "/", ".", "p", ...) or one lexeme of string.Template's       *)
(* pattern: a braced placeholder "${name}", the escape "$$", or "$!" (a    *)
(* delimiter followed by a character that starts no identifier, which      *)
(* Template reports as an invalid placeholder), or a word of an editor     *)
(* command line ("vi", "-c", ...).  No symbol other than "&" ends in '&',  *)
(* so the last character of a string is '&' iff its last symbol is "&".    *)
(***************************************************************************)
EXTENDS Integers, Sequences, FiniteSets, TLC

VARIABLES edit_template, call, outcome, pc, procs, handles

vars == <<edit_template, call, outcome, pc, procs, handles>>

---------------------------------------------------------------------------
(* Bounds of the model.                                                    *)

\* longest template string handed to set_edit_template
MaxTemplateLen == 1
\* background editor processes that may be alive at once
MaxProcs == 1
\* sniff handles that may be awaiting finalisation at once
MaxHandles == 1
\* largest line number reported by sage_getsourcelines
MaxSourceLine == 4

---------------------------------------------------------------------------
(* Strings and string.Template.                                            *)

FILE == "${file}"
LINE == "${line}"
OPTS == "${opts}"
ESC  == "$$"
BAD  == "$!"
AMP  == "&"
SP   == " "

\* the identifier of a named/braced placeholder lexeme
PlaceholderName(tok) ==
    CASE tok = FILE -> "file"
      [] tok = LINE -> "line"
      [] tok = OPTS -> "opts"
      [] OTHER -> ""

\* which alternative of Template.pattern the lexeme matches
TokenKind(tok) ==
    CASE tok \in {FILE, LINE, OPTS} -> "braced"
      [] tok = ESC -> "escaped"
      [] tok \in {BAD, "$"} -> "invalid"
      [] OTHER -> "literal"

\* Python values as records.  Every record lists its fields in the order of
\* the first occurrence of their names in this module, which is the order
\* TLC keeps a record in, so that a record is in normal form as it is built.
None == [kind |-> "None"]
Template(s) == [kind |-> "Template", template |-> s]

EndsWith(s, suffix) ==
    /\ Len(s) >= Len(suffix)
    /\ SubSeq(s, Len(s) - Len(suffix) + 1, Len(s)) = suffix

StartsWith(s, prefix) ==
    /\ Len(s) >= Len(prefix)
    /\ SubSeq(s, 1, Len(prefix)) = prefix

\* Template.substitute(mapping): the lexemes are converted left to right and
\* the first one that cannot be converted raises.  mapping is a function
\* from identifiers to strings.
RECURSIVE Substitute(_, _)
Substitute(t, mapping) ==
    IF t = <<>> THEN [raised |-> "no", val |-> <<>>]
    ELSE LET tok == Head(t)
             k == TokenKind(tok)
         IN  IF k = "invalid" THEN [raised |-> "ValueError"]
             ELSE IF k = "braced" /\ PlaceholderName(tok) \notin DOMAIN mapping
                  THEN [raised |-> "KeyError", key |-> PlaceholderName(tok)]
             ELSE LET rest == Substitute(Tail(t), mapping)
                      out == CASE k = "braced" -> mapping[PlaceholderName(tok)]
                               [] k = "escaped" -> <<"$">>
                               [] OTHER -> <<tok>>
                  IN  IF rest.raised = "no"
                      THEN [raised |-> "no", val |-> out \o rest.val]
                      ELSE rest

\* Template.safe_substitute(mapping): never raises; unknown placeholders and
\* invalid delimiters are left as they are, the escape becomes the delimiter.
RECURSIVE SafeSubstitute(_, _)
SafeSubstitute(t, mapping) ==
    IF t = <<>> THEN <<>>
    ELSE LET tok == Head(t)
             k == TokenKind(tok)
             out == CASE k = "braced" /\ PlaceholderName(tok) \in DOMAIN mapping
                           -> mapping[PlaceholderName(tok)]
                      [] k = "escaped" -> <<"$">>
                      [] OTHER -> <<tok>>
         IN  out \o SafeSubstitute(Tail(t), mapping)

\* the messages of the ValueErrors the module raises
MsgOnlyFileAndLine == "Only ${file} and ${line} are allowed as template variables, and ${file} must occur."
MsgInvalidPlaceholder == "Invalid placeholder in string"
MsgEditorNotKnown == "editor_name not known. Try set_edit_template(<template_string>) instead."
MsgUseSetEditTemplate == "Use set_edit_template(<template_string>) to set a default"

ValueError(msg) == [raised |-> "ValueError", msg |-> msg]

\* the dictionary {key: None for key in keys}; str(None) is 'None'
DummyDict(keys) == [key \in keys |-> <<"None">>]

\* template_fields: the while loop, with dict's key set as the loop state.
\* An empty substitution result is falsy, so the loop runs again with the
\* same dict and never ends.
RECURSIVE TemplateFieldsLoop(_, _)
TemplateFieldsLoop(t, keys) ==
    LET r == Substitute(t, DummyDict(keys))
    IN  CASE r.raised = "KeyError" -> TemplateFieldsLoop(t, keys \cup {r.key})
          [] r.raised = "ValueError" ->
                ValueError(MsgInvalidPlaceholder)
          [] OTHER -> IF r.val = <<>>
                      THEN [raised |-> "diverges"]
                      ELSE [raised |-> "no", fields |-> keys]

template_fields(t) == TemplateFieldsLoop(t, {})

---------------------------------------------------------------------------
(* The template store and the validator.                                   *)

template_defaults ==
    (<<"vi">>    :> <<"vi", SP, "-c", SP, LINE, SP, FILE>>) @@
    (<<"vim">>   :> <<"vim", SP, "-c", SP, LINE, SP, FILE>>) @@
    (<<"emacs">> :> <<"emacs", SP, OPTS, SP, "+", LINE, SP, FILE>>) @@
    (<<"nedit-nc">> :> <<"nedit-nc", SP, "-line", SP, LINE, SP, FILE>>) @@
    (<<"nedit-client">> :> <<"nedit-client", SP, "-line", SP, LINE, SP, FILE>>) @@
    (<<"ncl">>   :> <<"ncl", SP, "-line", SP, LINE, SP, FILE>>) @@
    (<<"gedit">> :> <<"gedit", SP, "+", LINE, SP, FILE, SP, AMP>>) @@
    (<<"kate">>  :> <<"kate", SP, "-u", SP, "--line", SP, "+", LINE, SP, FILE, SP, AMP>>)

\* set_edit_template without the test that ${file} occurs
set_edit_template_nofile(template_string) ==
    LET f == template_fields(template_string)
    IN  CASE f.raised = "diverges" -> [raised |-> "diverges"]
          [] f.raised = "ValueError" -> ValueError(f.msg)
          [] OTHER ->
               IF ~(f.fields \subseteq {"file", "line"})
               THEN ValueError(MsgOnlyFileAndLine)
               ELSE [template |-> Template(template_string), raised |-> "no"]

\* set_edit_template(template_string): the effect of the call.  "template"
\* is the value the global edit_template gets when the call returns.
set_edit_template(template_string) ==
    LET f == template_fields(template_string)
    IN  CASE f.raised = "diverges" -> [raised |-> "diverges"]
          [] f.raised = "ValueError" -> ValueError(f.msg)
          [] OTHER ->
               IF ~(f.fields \subseteq {"file", "line"} /\ "file" \in f.fields)
               THEN ValueError(MsgOnlyFileAndLine)
               ELSE [template |-> Template(template_string), raised |-> "no"]

\* set_editor that drops its opts
set_editor_noopts(editor_name, opts) ==
    IF editor_name \in DOMAIN template_defaults
    THEN set_edit_template(
             SafeSubstitute(template_defaults[editor_name], [opts |-> <<>>]))
    ELSE ValueError(MsgEditorNotKnown)

\* set_editor that makes up a template for a name it does not know
set_editor_fallback(editor_name, opts) ==
    IF editor_name \in DOMAIN template_defaults
    THEN set_edit_template(
             SafeSubstitute(template_defaults[editor_name], [opts |-> opts]))
    ELSE set_edit_template(editor_name \o <<SP, FILE>>)

\* set_editor(editor_name, opts)
set_editor(editor_name, opts) ==
    IF editor_name \in DOMAIN template_defaults
    THEN set_edit_template(
             SafeSubstitute(template_defaults[editor_name], [opts |-> opts]))
    ELSE ValueError(MsgEditorNotKnown)

---------------------------------------------------------------------------
(* str.split() and str.join().                                             *)

\* str.split() with no separator: the maximal runs of non-whitespace
RECURSIVE SplitFrom(_, _)
SplitFrom(s, word) ==
    IF s = <<>> THEN (IF word = <<>> THEN <<>> ELSE <<word>>)
    ELSE IF Head(s) = SP
         THEN (IF word = <<>> THEN <<>> ELSE <<word>>) \o SplitFrom(Tail(s), <<>>)
         ELSE SplitFrom(Tail(s), Append(word, Head(s)))

Split(s) == SplitFrom(s, <<>>)

\* sep.join(words)
RECURSIVE Join(_, _)
Join(words, sep) ==
    IF words = <<>> THEN <<>>
    ELSE IF Len(words) = 1 THEN Head(words)
    ELSE Head(words) \o sep \o Join(Tail(words), sep)

---------------------------------------------------------------------------
(* The source locator.                                                     *)

DotPy   == <<".", "p", "y">>
DotSage == <<".", "s", "a", "g", "e">>

\* re.match of a pattern without quantifiers at the start of s: "." matches
\* any character, every other character of the alphabet matches itself
RegexMatchesPrefix(pattern, s) ==
    /\ Len(s) >= Len(pattern)
    /\ \A i \in 1..Len(pattern) : pattern[i] = "." \/ pattern[i] = s[i]

\* re.sub('^' + SAGE_LIB, SAGE_SRC, filename)
RewritePath(SAGE_LIB, SAGE_SRC, filename) ==
    IF RegexMatchesPrefix(SAGE_LIB, filename)
    THEN SAGE_SRC \o SubSeq(filename, Len(SAGE_LIB) + 1, Len(filename))
    ELSE filename

\* file_and_line without the three lines taken off for a generated file
file_and_line_nooffset(obj, SAGE_LIB, SAGE_SRC) ==
    IF ~obj.found THEN [raised |-> "SourceNotFound", opened |-> FALSE]
    ELSE
    LET filename0 == obj.file
        lineno0 == obj.lnum - 1
        sniffs == EndsWith(filename0, DotPy)
    IN  IF sniffs /\ obj.sniff = "unopenable"
        THEN [raised |-> "OSError", opened |-> FALSE]
        ELSE IF sniffs /\ obj.sniff = "undecodable"
        THEN [raised |-> "UnicodeDecodeError", opened |-> TRUE]
        ELSE
        LET generated == sniffs /\ obj.sniff = "autogenerated"
            filename1 == IF generated
                         THEN SubSeq(filename0, 1, Len(filename0) - 3) \o DotSage
                         ELSE filename0
        IN  [raised |-> "no",
             filename |-> RewritePath(SAGE_LIB, SAGE_SRC, filename1),
             opened |-> sniffs, lineno |-> lineno0 + 1]

\* file_and_line(obj).  obj carries what sage_getfile, sage_getsourcelines
\* and the file system answer for it.  "opened" tells whether the sniff
\* handle infile was opened; the function never closes it.
file_and_line(obj, SAGE_LIB, SAGE_SRC) ==
    IF ~obj.found THEN [raised |-> "SourceNotFound", opened |-> FALSE]
    ELSE
    LET filename0 == obj.file
        lineno0 == obj.lnum - 1
        sniffs == EndsWith(filename0, DotPy)
    IN  IF sniffs /\ obj.sniff = "unopenable"
        THEN [raised |-> "OSError", opened |-> FALSE]
        ELSE IF sniffs /\ obj.sniff = "undecodable"
        THEN [raised |-> "UnicodeDecodeError", opened |-> TRUE]
        ELSE
        LET generated == sniffs /\ obj.sniff = "autogenerated"
            filename1 == IF generated
                         THEN SubSeq(filename0, 1, Len(filename0) - 3) \o DotSage
                         ELSE filename0
            lineno1 == IF generated THEN lineno0 - 3 ELSE lineno0
        IN  [raised |-> "no",
             filename |-> RewritePath(SAGE_LIB, SAGE_SRC, filename1),
             opened |-> sniffs, lineno |-> lineno1 + 1]

---------------------------------------------------------------------------
(* The editor invoker.                                                     *)

Str(s) == [kind |-> "str", s |-> s]

\* truth value of an optional string argument: None and '' are falsy
Truthy(x) == x # None /\ x.s # <<>>

\* the resolution with EDITOR consulted before the active template
ResolveTemplate_envfirst(template, editor, environ) ==
    IF Truthy(editor)
    THEN LET r == set_editor(editor.s, <<>>)
         IN  IF r.raised = "no"
             THEN [template |-> r.template, raised |-> "no", msg |-> "", read |-> FALSE]
             ELSE [template |-> template, raised |-> r.raised, msg |-> r.msg, read |-> FALSE]
    ELSE LET words == IF environ = None THEN <<>> ELSE Split(environ.s)
             r == IF environ = None THEN [raised |-> "KeyError"]
                  ELSE IF words = <<>> THEN [raised |-> "IndexError"]
                  ELSE set_editor(words[1], Join(Tail(words), <<SP>>))
         IN  IF r.raised = "no"
             THEN [template |-> r.template, raised |-> "no", msg |-> "", read |-> TRUE]
             ELSE IF template # None
             THEN [template |-> template, raised |-> "no", msg |-> "", read |-> TRUE]
             ELSE [template |-> template, raised |-> "ValueError",
                   msg |-> MsgUseSetEditTemplate, read |-> TRUE]

\* edit, lines 254-267: which template the call ends up with.  environ is
\* os.environ's EDITOR entry (None when the variable is absent); "read"
\* tells whether the call looked it up.
ResolveTemplate(template, editor, environ) ==
    IF Truthy(editor)
    THEN LET r == set_editor(editor.s, <<>>)
         IN  IF r.raised = "no"
             THEN [template |-> r.template, raised |-> "no", msg |-> "", read |-> FALSE]
             ELSE [template |-> template, raised |-> r.raised, msg |-> r.msg, read |-> FALSE]
    ELSE IF template = None
    THEN LET words == IF environ = None THEN <<>> ELSE Split(environ.s)
             r == IF environ = None THEN [raised |-> "KeyError"]
                  ELSE IF words = <<>> THEN [raised |-> "IndexError"]
                  ELSE set_editor(words[1], Join(Tail(words), <<SP>>))
         IN  IF r.raised = "no"
             THEN [template |-> r.template, raised |-> "no", msg |-> "", read |-> TRUE]
             ELSE [template |-> template, raised |-> "ValueError",
                   msg |-> MsgUseSetEditTemplate, read |-> TRUE]
    ELSE [template |-> template, raised |-> "no", msg |-> "", read |-> FALSE]

\* the adjustment that appends the marker without looking at the command
AdjustBackground_always(cmd, bg) ==
    IF bg = "None" THEN [raised |-> "no", executed |-> cmd]
    ELSE IF cmd = <<>> THEN [raised |-> "IndexError", executed |-> cmd]
    ELSE LET cmd1 == IF bg = "True" THEN cmd \o <<AMP>> ELSE cmd
             cmd2 == IF bg = "False" /\ cmd1[Len(cmd1)] = AMP
                     THEN SubSeq(cmd1, 1, Len(cmd1) - 1) ELSE cmd1
         IN  [raised |-> "no", executed |-> cmd2]

\* edit, lines 272-275: the two background adjustments, in order
AdjustBackground(cmd, bg) ==
    IF bg = "None" THEN [raised |-> "no", executed |-> cmd]
    ELSE IF cmd = <<>> THEN [raised |-> "IndexError", executed |-> cmd]
    ELSE LET cmd1 == IF bg = "True" /\ cmd[Len(cmd)] # AMP
                     THEN cmd \o <<AMP>> ELSE cmd
             cmd2 == IF bg = "False" /\ cmd1[Len(cmd1)] = AMP
                     THEN SubSeq(cmd1, 1, Len(cmd1) - 1) ELSE cmd1
         IN  [raised |-> "no", executed |-> cmd2]

\* a call that spawns the command and does not wait for it
ShellBackgrounds_detached(cmd) == TRUE

\* os.system(cmd) hands cmd to sh -c and waits for the shell: the shell
\* waits for a foreground command, and starts a command that ends in the
\* control operator & asynchronously without waiting for it
ShellBackgrounds(cmd) == cmd # <<>> /\ cmd[Len(cmd)] = AMP

EditResult(raised, msg, template, read, opened, cmd, executed) ==
    [template |-> template, raised |-> raised, msg |-> msg, opened |-> opened,
     read |-> read, cmd |-> cmd, executed |-> executed,
     returned |-> FALSE, waited |-> FALSE]

\* edit(obj, editor, bg) up to the call of os.system.  "template" is the
\* value of the global edit_template when the call leaves this part;
\* "returned" and "waited" tell whether the call is back at its caller and
\* whether it waited in os.system for the editor to exit.
edit(template, obj, editor, bg, environ, SAGE_LIB, SAGE_SRC) ==
    LET t == ResolveTemplate(template, editor, environ)
    IN  IF t.raised # "no"
        THEN EditResult(t.raised, t.msg, t.template, t.read, FALSE, <<>>, <<>>)
        ELSE IF t.template = None
        THEN EditResult("ValueError", MsgUseSetEditTemplate, t.template, t.read,
                        FALSE, <<>>, <<>>)
        ELSE
        LET loc == file_and_line(obj, SAGE_LIB, SAGE_SRC)
        IN  IF loc.raised # "no"
            THEN EditResult(loc.raised, "", t.template, t.read, loc.opened, <<>>, <<>>)
            ELSE
            LET sub == Substitute(t.template.template,
                           [file |-> loc.filename, line |-> <<ToString(loc.lineno)>>])
            IN  IF sub.raised # "no"
                THEN EditResult(sub.raised, "", t.template, t.read, loc.opened,
                                <<>>, <<>>)
                ELSE
                LET adj == AdjustBackground(sub.val, bg)
                IN  EditResult(adj.raised, "", t.template, t.read, loc.opened,
                               sub.val, adj.executed)

---------------------------------------------------------------------------
(* Inputs.                                                                 *)

Strings(alphabet, n) == UNION {[1..k -> alphabet] : k \in 0..n}

\* template strings handed to set_edit_template: every string of up to
\* MaxTemplateLen symbols, and some longer ones
TemplateStrings ==
    Strings({FILE, LINE, OPTS, ESC, BAD, AMP}, MaxTemplateLen) \cup
    {<<"echo", SP, "EDIT", SP, FILE, ":", LINE>>, <<"x", SP, FILE, SP, AMP>>,
     <<ESC, FILE, BAD>>, <<FILE, LINE, OPTS>>, <<"x", SP, ESC>>}

\* editor names: the keys of the table, an unknown name and the empty name
EditorNames == DOMAIN template_defaults \cup {<<"nano">>, <<>>}

OptsStrings ==
    {<<>>, <<"-nw", SP, "-q">>, <<OPTS>>, <<ESC>>, <<BAD>>}

\* values of the EDITOR environment variable; None when it is absent
EnvironValues ==
    {None} \cup
    {Str(s) : s \in {<<>>, <<SP>>, <<"vi">>, <<SP, "gedit">>, <<"nano">>,
                     <<"emacs", SP, "-nw">>,
                     <<"emacs", SP, SP, "-nw", SP, "-q", SP>>,
                     <<"emacs", SP, OPTS>>}}

\* the editor argument of edit
EditorArgs ==
    {None} \cup {Str(s) : s \in {<<>>, <<"vi">>, <<"kate">>, <<"nano">>}}

BgArgs == {"None", "True", "False"}

\* sage.env.SAGE_LIB and sage.env.SAGE_SRC
SageLibs == {<<"/", "l">>, <<"/", "l", ".", "b">>}
SageSrcs == {<<"/", "s">>, <<"/", "d", "/", "s">>}

Dirs == {<<"/", "l">>, <<"/", "l", "x">>, <<"/", "l", ".", "b">>,
         <<"/", "l", "x", "b">>, <<"/", "u">>, <<"/", "u", "/", "l">>}
DotPyx == <<".", "p", "y", "x">>
Extensions == {DotPy, DotPyx, DotSage}
Filenames == {d \o <<"/", "m">> \o e : d \in Dirs, e \in Extensions}

SniffResults == {"autogenerated", "plain", "eof", "undecodable", "unopenable"}

\* what sage_getfile, sage_getsourcelines and the file system answer for an
\* object.  Only a file that ends in .py is opened, so the others carry
\* no sniff result of their own.
NoSource == [found |-> FALSE, file |-> <<>>, lnum |-> 0, sniff |-> "plain"]
Objects ==
    {NoSource} \cup
    {o \in [found : {TRUE}, file : Filenames, lnum : 0..MaxSourceLine,
            sniff : SniffResults] :
        EndsWith(o.file, DotPy) \/ o.sniff = "plain"}

\* the objects edit is called on
EditObjects ==
    {NoSource} \cup
    {o \in Objects : /\ o.found
                     /\ o.file \in {<<"/", "l", "/", "m">> \o DotPyx,
                                    <<"/", "l", "x", "b", "/", "m">> \o DotPy}
                     /\ o.lnum \in {1, MaxSourceLine}
                     /\ o.sniff \in {"plain", "autogenerated", "undecodable"}}

---------------------------------------------------------------------------
(* The state machine.                                                      *)

Init ==
    /\ edit_template = None
    /\ call = [op |-> "import"]
    /\ outcome = [raised |-> "no"]
    /\ pc = "idle"
    /\ procs = 0
    /\ handles = 0

\* the sniff handle of a call that opened one: file_and_line never closes
\* it, so it stays open until the interpreter finalises the file object.
\* When the call returns normally a reference-counting interpreter does so
\* at once and any other one later; when the call raises, the traceback
\* keeps the frame and its infile alive.
LeavesHandle(raised, opened) ==
    IF ~opened THEN {0}
    ELSE IF raised = "UnicodeDecodeError" THEN {1}
    ELSE {0, 1}

SetEditTemplate ==
    \E t \in TemplateStrings :
    \E r \in {set_edit_template(t)} :
            /\ pc = "idle"
            /\ call' = [op |-> "set_edit_template", template_string |-> t,
                        before |-> edit_template]
            /\ outcome' = r
            /\ edit_template' = IF r.raised = "no" THEN r.template ELSE edit_template
            /\ pc' = IF r.raised = "diverges" THEN "template_fields" ELSE "idle"
            /\ UNCHANGED <<procs, handles>>

SetEditor ==
    \E name \in EditorNames, opts \in OptsStrings :
    \E r \in {set_editor(name, opts)} :
            /\ pc = "idle"
            /\ call' = [op |-> "set_editor", editor_name |-> name, opts |-> opts,
                        before |-> edit_template]
            /\ outcome' = r
            /\ edit_template' = IF r.raised = "no" THEN r.template ELSE edit_template
            /\ pc' = IF r.raised = "diverges" THEN "template_fields" ELSE "idle"
            /\ UNCHANGED <<procs, handles>>

Unread == Str(<<"unread">>)

\* edit: the call up to os.system; a foreground command keeps the call
\* inside os.system until the editor exits.  An input the call does not get
\* to read is recorded as such: EDITOR when the template is given or set,
\* obj, bg and the two roots when the call raises before it reads them.
EditOn(editors, environs, objs, libs, srcs) ==
    \E editor \in editors, environ \in environs :
    \E t \in {ResolveTemplate(edit_template, editor, environ)} :
    \E resolved \in {t.raised = "no" /\ t.template # None} :
        /\ pc = "idle"
        /\ t.read \/ environ = None
        /\ \E obj \in IF resolved THEN objs ELSE {NoSource} :
           \E lib \in IF resolved /\ obj.found THEN libs ELSE {<<>>} :
           \E src \in IF resolved /\ obj.found THEN srcs ELSE {<<>>} :
           \E located \in {resolved /\ file_and_line(obj, lib, src).raised = "no"} :
           \E bg \in IF located THEN BgArgs ELSE {"None"} :
           \E r \in {edit(edit_template, obj, editor, bg, environ, lib, src)} :
           \E spawned \in {r.raised = "no"} :
           \E background \in {spawned /\ ShellBackgrounds(r.executed)} :
           \E leak \in LeavesHandle(r.raised, r.opened) :
               /\ handles + leak <= MaxHandles
               /\ background => procs < MaxProcs
               /\ call' = [op |-> "edit", obj |-> obj, editor |-> editor, bg |-> bg,
                           environ |-> IF r.read THEN environ ELSE Unread,
                           SAGE_LIB |-> lib, SAGE_SRC |-> src,
                           before |-> edit_template]
               /\ outcome' = [r EXCEPT !.opened = (leak = 1),
                                        !.returned = ~spawned \/ background]
               /\ edit_template' = r.template
               /\ pc' = IF spawned /\ ~background THEN "os.system" ELSE "idle"
               /\ procs' = IF background THEN procs + 1 ELSE procs
               /\ handles' = handles + leak

\* edit called with any editor argument and any EDITOR, on an object without
\* source or on an object of a compiled module of the library
Edit ==
    EditOn(EditorArgs, EnvironValues,
           {o \in EditObjects : ~o.found \/ (o.lnum = 1 /\ o.sniff = "plain")},
           {<<"/", "l">>}, {<<"/", "s">>})

\* edit(obj) and edit(obj, bg=...) with a template in place
Invoke == EditOn({None}, {None}, EditObjects, SageLibs, {<<"/", "s">>})

\* the editor that os.system waits for exits, and edit returns
ForegroundEditorExits ==
    /\ pc = "os.system"
    /\ pc' = "idle"
    /\ outcome' = [outcome EXCEPT !.returned = TRUE, !.waited = TRUE]
    /\ UNCHANGED <<edit_template, call, procs, handles>>

\* an editor started in the background exits
BackgroundEditorExits ==
    /\ procs > 0
    /\ procs' = procs - 1
    /\ UNCHANGED <<edit_template, call, outcome, pc, handles>>

\* the interpreter finalises an unreachable sniff handle, which closes it
Finalize ==
    /\ handles > 0
    /\ handles' = handles - 1
    /\ UNCHANGED <<edit_template, call, outcome, pc, procs>>

FileAndLine ==
    \E obj \in Objects, lib \in SageLibs, src \in SageSrcs :
    \E r \in {file_and_line(obj, lib, src)} :
            \E leak \in LeavesHandle(r.raised, r.opened) :
            /\ pc = "idle"
            /\ handles + leak <= MaxHandles
            /\ call' = [op |-> "file_and_line", obj |-> obj,
                        SAGE_LIB |-> lib, SAGE_SRC |-> src]
            /\ outcome' = [r EXCEPT !.opened = (leak = 1)]
            /\ handles' = handles + leak
            /\ UNCHANGED <<edit_template, pc, procs>>

\* edit_devel(self, filename, linenum): the arguments it hands to
\* IPython.core.hooks.editor
edit_devel(filename, linenum, SAGE_LIB, SAGE_SRC) ==
    [raised |-> "no", filename |-> RewritePath(SAGE_LIB, SAGE_SRC, filename),
     linenum |-> linenum]

EditDevel ==
    \E filename \in Filenames, linenum \in 0..MaxSourceLine,
       lib \in SageLibs, src \in SageSrcs :
        /\ pc = "idle"
        /\ call' = [op |-> "edit_devel", filename |-> filename, linenum |-> linenum,
                    SAGE_LIB |-> lib, SAGE_SRC |-> src]
        /\ outcome' = edit_devel(filename, linenum, lib, src)
        /\ UNCHANGED <<edit_template, pc, procs, handles>>

Next ==
    \/ SetEditTemplate
    \/ SetEditor
    \/ Edit
    \/ ForegroundEditorExits
    \/ BackgroundEditorExits

Spec == Init /\ [][Next]_vars

\* the templates set_edit_template installs
InstalledTemplates ==
    {Template(t) : t \in
        {t \in TemplateStrings \cup
                {SafeSubstitute(template_defaults[n], [opts |-> <<>>]) :
                    n \in DOMAIN template_defaults} :
            set_edit_template(t).raised = "no"}}

InitInvoke ==
    /\ edit_template \in InstalledTemplates
    /\ call = [op |-> "import"]
    /\ outcome = [raised |-> "no"]
    /\ pc = "idle"
    /\ procs = 0
    /\ handles = 0

NextInvoke ==
    \/ Invoke
    \/ ForegroundEditorExits
    \/ BackgroundEditorExits
    \/ Finalize

SpecInvoke == InitInvoke /\ [][NextInvoke]_vars

NextLocate ==
    \/ FileAndLine
    \/ EditDevel
    \/ Finalize

SpecLocate == Init /\ [][NextLocate]_vars

---------------------------------------------------------------------------
(* Notions the properties are stated in.                                   *)

\* the placeholder names that occur in a template string
PlaceholderNames(s) ==
    {PlaceholderName(s[i]) : i \in {j \in DOMAIN s : TokenKind(s[j]) = "braced"}}

\* s with every ${opts} replaced by opts and nothing else touched
RECURSIVE ReplaceOpts(_, _)
ReplaceOpts(s, opts) ==
    IF s = <<>> THEN <<>>
    ELSE (IF Head(s) = OPTS THEN opts ELSE <<Head(s)>>) \o ReplaceOpts(Tail(s), opts)

\* the command a validated template stands for at a file and a line
RECURSIVE Fill(_, _, _)
Fill(s, file, line) ==
    IF s = <<>> THEN <<>>
    ELSE (CASE Head(s) = FILE -> file
            [] Head(s) = LINE -> <<ToString(line)>>
            [] Head(s) = ESC -> <<"$">>
            [] OTHER -> <<Head(s)>>) \o Fill(Tail(s), file, line)

EndsInAmp(cmd) == cmd # <<>> /\ cmd[Len(cmd)] = AMP

KnownEditor(name) == name \in DOMAIN template_defaults

\* the spec's names for the ValueErrors
InvalidTemplateError ==
    /\ outcome.raised = "ValueError"
    /\ outcome.msg \in {MsgOnlyFileAndLine, MsgInvalidPlaceholder}
UnknownEditorError ==
    outcome.raised = "ValueError" /\ outcome.msg = MsgEditorNotKnown
NoEditorConfiguredError ==
    outcome.raised = "ValueError" /\ outcome.msg = MsgUseSetEditTemplate

---------------------------------------------------------------------------
(* C1: after any sequence of set_edit_template, set_editor and edit calls, *)
(* the active template is Unset or its placeholder names are a subset of   *)
(* {file, line} that contains file.                                        *)
C1_ActiveTemplateValid ==
    \/ edit_template = None
    \/ /\ PlaceholderNames(edit_template.template) \subseteq {"file", "line"}
       /\ "file" \in PlaceholderNames(edit_template.template)

\* a template survives a failing call that follows its installation
C1_Witness ==
    /\ edit_template # None
    /\ call.op \in {"set_edit_template", "set_editor", "edit"}
    /\ outcome.raised = "ValueError"
    /\ "line" \in PlaceholderNames(edit_template.template)

(* C2: set_edit_template on a template without any placeholder, the empty  *)
(* string included, returns to the caller with InvalidTemplateError and    *)
(* leaves the active template as it was.                                   *)
C2_NoPlaceholderRejected ==
    (call.op = "set_edit_template" /\ PlaceholderNames(call.template_string) = {})
        => /\ pc = "idle"
           /\ InvalidTemplateError
           /\ edit_template = call.before

(* C3: when set_editor(name, opts) succeeds for a name of the table, the   *)
(* active template is the table's template with ${opts} replaced by opts   *)
(* and ${file}, ${line} untouched; set_editor("vi") gives exactly          *)
(* 'vi -c ${line} ${file}' whatever the template was before.               *)
C3_SetEditorInstallsDefault ==
    (call.op = "set_editor" /\ outcome.raised = "no")
        => /\ KnownEditor(call.editor_name)
           /\ edit_template =
                Template(ReplaceOpts(template_defaults[call.editor_name], call.opts))
           /\ call.editor_name = <<"vi">> =>
                edit_template.template = <<"vi", SP, "-c", SP, LINE, SP, FILE>>

C3_Witness ==
    /\ call.op = "set_editor"
    /\ outcome.raised = "no"
    /\ call.editor_name = <<"emacs">>
    /\ call.opts = <<"-nw", SP, "-q">>
    /\ call.before # None
    /\ call.before # edit_template

(* C4: set_editor with a name that is no key of the table fails with       *)
(* UnknownEditorError and leaves the active template unchanged.            *)
C4_UnknownEditorRejected ==
    (call.op = "set_editor" /\ ~KnownEditor(call.editor_name))
        => /\ UnknownEditorError
           /\ edit_template = call.before

C4_Witness ==
    /\ call.op = "set_editor"
    /\ call.editor_name = <<"nano">>
    /\ call.opts # <<>>
    /\ call.before # None
    /\ edit_template = call.before

\* what file_and_line answers for the arguments of the recorded edit call
C5_Located == file_and_line(call.obj, call.SAGE_LIB, call.SAGE_SRC)

(* C5: edit picks its template in this order: (a) a given (non-empty)      *)
(* editor: the template of set_editor(editor) replaces the active one and  *)
(* stays; (b) else with no active template: EDITOR is read, its first      *)
(* whitespace-delimited token is the name and the remaining tokens are the *)
(* opts of set_editor, and an absent, empty or unknown EDITOR fails with   *)
(* NoEditorConfiguredError and leaves the template Unset; (c) else the     *)
(* active template is used unchanged and EDITOR is not read.               *)
C5_ResolutionOrder ==
    call.op = "edit" =>
        IF Truthy(call.editor)
        THEN /\ call.environ = Unread
             /\ IF KnownEditor(call.editor.s)
                THEN edit_template =
                        Template(ReplaceOpts(template_defaults[call.editor.s], <<>>))
                ELSE UnknownEditorError /\ edit_template = call.before
        ELSE IF call.before = None
        THEN /\ call.environ # Unread
             /\ LET words == IF call.environ = None THEN <<>>
                             ELSE Split(call.environ.s)
                IN  IF words = <<>> \/ ~KnownEditor(Head(words))
                    THEN NoEditorConfiguredError /\ edit_template = None
                    ELSE \/ NoEditorConfiguredError /\ edit_template = None
                         \/ /\ ~NoEditorConfiguredError
                            /\ edit_template =
                                 Template(ReplaceOpts(template_defaults[Head(words)],
                                                      Join(Tail(words), <<SP>>)))
        ELSE /\ call.environ = Unread
             /\ edit_template = call.before
             /\ outcome.raised = "no" =>
                  outcome.cmd = Fill(call.before.template,
                                     C5_Located.filename, C5_Located.lineno)

\* EDITOR='emacs  -nw -q ' with no template: emacs with opts '-nw -q'
C5_Witness ==
    /\ call.op = "edit"
    /\ call.before = None
    /\ call.environ = Str(<<"emacs", SP, SP, "-nw", SP, "-q", SP>>)
    /\ outcome.raised = "no"
    /\ edit_template.template =
         <<"emacs", SP, "-nw", SP, "-q", SP, "+", LINE, SP, FILE>>

(* C6: with background=True and a command not ending in '&' the executed   *)
(* command is the command plus one '&'; with background=False and a        *)
(* command ending in '&' it is the command less its last '&'; otherwise it *)
(* is the command unchanged.                                               *)
C6_BackgroundAdjustment ==
    (call.op = "edit" /\ outcome.raised = "no")
        => /\ outcome.cmd = Fill(edit_template.template,
                                 C5_Located.filename, C5_Located.lineno)
           /\ outcome.executed =
                CASE call.bg = "True" /\ ~EndsInAmp(outcome.cmd)
                        -> outcome.cmd \o <<AMP>>
                  [] call.bg = "False" /\ EndsInAmp(outcome.cmd)
                        -> SubSeq(outcome.cmd, 1, Len(outcome.cmd) - 1)
                  [] OTHER -> outcome.cmd

C6_Witness ==
    /\ call.op = "edit"
    /\ outcome.raised = "no"
    /\ call.bg = "False"
    /\ EndsInAmp(outcome.cmd)
    /\ outcome.executed = SubSeq(outcome.cmd, 1, Len(outcome.cmd) - 1)
    /\ ~EndsInAmp(outcome.executed)

---------------------------------------------------------------------------
\* the filename file_and_line hands to the path rewrite: the object's file,
\* with .sage for .py when the file is a generated one
C7_Unrewritten ==
    IF call.op = "edit_devel" THEN call.filename
    ELSE IF EndsWith(call.obj.file, DotPy) /\ call.obj.sniff = "autogenerated"
         THEN SubSeq(call.obj.file, 1, Len(call.obj.file) - 3) \o DotSage
         ELSE call.obj.file

(* C7: the path rewrite of file_and_line and of edit_devel: a filename     *)
(* that starts with the installed-library root comes back with that prefix *)
(* replaced by the development-tree root and the rest verbatim; a filename *)
(* that does not start with the root comes back unchanged.                 *)
C7_PathRewrite ==
    (call.op \in {"file_and_line", "edit_devel"} /\ outcome.raised = "no")
        => outcome.filename =
             IF StartsWith(C7_Unrewritten, call.SAGE_LIB)
             THEN call.SAGE_SRC \o SubSeq(C7_Unrewritten, Len(call.SAGE_LIB) + 1,
                                          Len(C7_Unrewritten))
             ELSE C7_Unrewritten

\* the zero-based starting line of the recorded call's object
C8_RawLine == call.obj.lnum - 1

\* its file is a .py file with the generation marker on line 2
C8_Generated == EndsWith(call.obj.file, DotPy) /\ call.obj.sniff = "autogenerated"

C9_FireAndForget ==
    (call.op = "edit" /\ outcome.raised = "no")
        => outcome.returned /\ ~outcome.waited

\* C9 as amended: edit returns without waiting for the editor exactly when
\* the executed command ends in '&'; for any other command it stays in
\* os.system until the editor has exited.
C9_WaitsUnlessBackgrounded ==
    (call.op = "edit" /\ outcome.raised = "no")
        => IF EndsInAmp(outcome.executed)
           THEN pc = "idle" /\ outcome.returned /\ ~outcome.waited
           ELSE \/ pc = "os.system" /\ ~outcome.returned
                \/ pc = "idle" /\ outcome.returned /\ outcome.waited

\* edit(obj, bg=True) has returned while the editor it started is running
C9_Witness ==
    /\ call.op = "edit"
    /\ outcome.raised = "no"
    /\ call.bg = "True"
    /\ ~EndsInAmp(outcome.cmd)
    /\ outcome.returned
    /\ ~outcome.waited
    /\ pc = "idle"
    /\ procs > 0

(* C10: the file handle file_and_line opens to sniff the generation marker *)
(* is closed by the time the call returns or fails: no call leaves it      *)
(* open.                                                                   *)
C10_SniffHandleClosed == handles = 0

====
